---- MODULE Spec2Model ----
(***************************************************************************)
(* A model of the health-check monitor of sparetimecoders/monitor.         *)
(*                                                                         *)
(* src/types.go holds two Go files one after the other: the data types     *)
(* (Checker, StatusListener, State; lines 1-51) and the Monitor (lines     *)
(* 53-319).  src/config.go holds the check descriptor, Config.             *)
(*                                                                         *)
(* The Monitor's methods AddCheck, RemoveCheck, Start, StartCheck,         *)
(* StopCheck and Stop read and write configs, runners and started without  *)
(* a common lock, so they are modelled as called from one control thread:  *)
(* one call at a time, each one atomic step, except Stop, which sleeps for *)
(* a second between closing the stop channels and resetting the maps.      *)
(* State() only takes statesLock and may be called at any time.  Every     *)
(* lane (the goroutine of startRunner) runs concurrently with the control  *)
(* thread and with the other lanes; one step of a lane is one section of   *)
(* its code that touches shared state at most once under statesLock.       *)
(* Listener and OnComplete calls are goroutines of their own ("go ..."):   *)
(* they are dispatched by the lane and run at any later time, in any       *)
(* order.                                                                  *)
(*                                                                         *)
(* For the two mutexes the same code is also followed lock by lock: there  *)
(* StopCheck, State, Stop and StartCheck are calls of concurrent callers,  *)
(* each Lock() is a step that waits for the mutex, and the lanes take      *)
(* statesLock in a step of its own before their read and before their      *)
(* write.                                                                  *)
(*                                                                         *)
(* Times are natural numbers; 0 is the zero time.Time.  The Err and        *)
(* Details fields of State are left out: Err is set exactly when Status is *)
(* "failed" and Details is the probe's payload, and nothing reads them.    *)
(***************************************************************************)
EXTENDS Integers, Sequences, FiniteSets, TLC

\* ---------------------------------------------------------------- bounds
\* The check names in use.
Names == {"a", "b"}
\* The most lanes (goroutines of startRunner) launched in one behaviour.
MaxLanes == 2
\* The most descriptors the registry holds.
MaxConfigs == MaxLanes + 1
\* The most descriptors passed to one AddCheck call (cfg ...*Config).
MaxArgs == 2
\* The most probe invocations that return in one behaviour.
MaxProbes == 2
\* The same, where the streaks are looked at.
MaxStreak == 3
\* The last value of the wall clock.
MaxTime == 2
\* The threads that call the API at the same time, where calls are followed
\* lock by lock.
MaxCallers == 2

VARIABLES
    configs,    \* Monitor.configs: the registry, a sequence of descriptors
    states,     \* Monitor.states: name -> State, a map (partial function)
    runners,    \* Monitor.runners: name -> stop channel of the lane
    started,    \* Monitor.started
    listener,   \* Monitor.StatusListener # nil
    lanes,      \* the lane goroutines launched so far; lane i owns channel i
    closed,     \* the stop channels that have been closed
    stopping,   \* the control thread is inside Stop, in its time.Sleep
    pending,    \* listener goroutines dispatched and not yet run
    callbacks,  \* OnComplete goroutines dispatched and not yet run
    handled,    \* name -> number of OnComplete invocations that have run
    obsCount,   \* name -> number of probe invocations that have returned
    afterStop,  \* Stop has returned and nothing was launched since
    now,        \* the wall clock, time.Now()
    event,      \* what the last step let the outside see: the return of an
                \* API call, a listener call or an OnComplete call
    statesLock, \* Monitor.statesLock: the thread that holds it, 0 when unlocked
    runnersLock, \* Monitor.runnersLock: the thread that holds it, 0 when unlocked
    calls       \* caller -> the API call it is in, where calls are followed
                \* lock by lock

vars == <<configs, states, runners, started, listener, lanes, closed, stopping,
          pending, callbacks, handled, obsCount, afterStop, now, event,
          statesLock, runnersLock, calls>>

\* ------------------------------------------------------------ data types
\* The zero value of State: what a lookup of a missing key in h.states gives.
ZeroState ==
    [Name |-> "", Status |-> "", CheckTime |-> 0,
     ContiguousFailures |-> 0, TimeOfFirstFailure |-> 0]

\* func (s *State) isFailure() bool
isFailure(s) == s.Status = "failed"

\* A descriptor: its name and whether OnComplete is not nil.
Configs == [Name : Names, OnComplete : BOOLEAN]

\* m[k] of a Go map: the zero value when k is missing.
MapGet(m, k, zero) == IF k \in DOMAIN m THEN m[k] ELSE zero

\* delete(m, k) of a Go map.
MapDelete(m, k) == [x \in DOMAIN m \ {k} |-> m[x]]

\* m[k] = v of a Go map.
MapPut(m, k, v) == [x \in DOMAIN m \cup {k} |-> IF x = k THEN v ELSE m[x]]

\* make(map[...]...): the empty map.
EmptyMap == [x \in {} |-> 0]

NoEvent == [type |-> "none"]

\* The return of an API call: the call, its argument and whether the error
\* returned is not nil.
Return(op, arg, err) == [type |-> "return", op |-> op, arg |-> arg, err |-> err]

\* The threads that call the API.  In the locks, lane i is thread i and
\* caller c is thread -c.
Callers == 1..MaxCallers

Caller(c) == 0 - c

\* A caller that is in no call.
Idle == [op |-> "idle", pc |-> "idle", name |-> "", stop |-> 0]

\* A caller in call op, at pc, with the argument name and the local stop.
Call(op, pc, name, stop) == [op |-> op, pc |-> pc, name |-> name, stop |-> stop]

\* A lane that has not started a probe, or has exited, holds no State.
Lane(cfg) ==
    [Name |-> cfg.Name, OnComplete |-> cfg.OnComplete, pc |-> "sleep",
     stateEntry |-> ZeroState, obs |-> 0]

Init ==
    /\ configs = <<>>
    /\ states = EmptyMap
    /\ runners = EmptyMap
    /\ started = FALSE
    /\ listener = FALSE
    /\ lanes = <<>>
    /\ closed = {}
    /\ stopping = FALSE
    /\ pending = {}
    /\ callbacks = {}
    /\ handled = [n \in Names |-> 0]
    /\ obsCount = [n \in Names |-> 0]
    /\ afterStop = FALSE
    /\ now = 1
    /\ event = NoEvent
    /\ statesLock = 0
    /\ runnersLock = 0
    /\ calls = [c \in Callers |-> Idle]

\* ------------------------------------------------------- the control thread
\* mon.StatusListener = &listener
AttachListener ==
    /\ ~stopping
    /\ ~listener
    /\ listener' = TRUE
    /\ event' = NoEvent
    /\ UNCHANGED <<configs, states, runners, started, lanes, closed, stopping,
                   pending, callbacks, handled, obsCount, afterStop, now,
                   statesLock, runnersLock, calls>>

\* Clashes looking at the first descriptor of the call only.
ClashesOfFirst(cfg) ==
    {j \in {1} : \E i \in 1..Len(configs) : cfg[j].Name = configs[i].Name}

\* The descriptors of cfg that name an existing descriptor.
Clashes(cfg) ==
    {j \in 1..Len(cfg) : \E i \in 1..Len(configs) : cfg[j].Name = configs[i].Name}

\* The registry after a successful AddCheck(cfg...).
AddedConfigs(cfg) == configs \o cfg

AddCheck(cfg) ==
    /\ ~stopping
    /\ IF Clashes(cfg) # {}
       THEN /\ event' = Return("AddCheck", cfg, TRUE)
            /\ UNCHANGED configs
       ELSE /\ configs' = AddedConfigs(cfg)
            /\ event' = Return("AddCheck", cfg, FALSE)
    /\ UNCHANGED <<states, runners, started, listener, lanes, closed, stopping,
                   pending, callbacks, handled, obsCount, afterStop, now,
                   statesLock, runnersLock, calls>>

\* startRunnerForConfig, for each descriptor of cs in order: a new stop
\* channel, a new lane, and runners[c.Name] = stop.
RECURSIVE LaunchRunners(_, _, _)
LaunchRunners(cs, rs, n) ==
    IF cs = <<>> THEN rs
    ELSE LaunchRunners(Tail(cs), MapPut(rs, Head(cs).Name, n + 1), n + 1)

LaunchLanes(cs) == lanes \o [i \in 1..Len(cs) |-> Lane(cs[i])]

\* Start without the check of h.started.
StartNeverRefused == FALSE

\* if h.started { return errors.New("monitor already started") }
StartRefused == started

Start ==
    /\ ~stopping
    /\ IF StartRefused
       THEN /\ event' = Return("Start", "", TRUE)
            /\ UNCHANGED <<started, lanes, runners, afterStop>>
       ELSE /\ started' = TRUE
            /\ lanes' = LaunchLanes(configs)
            /\ runners' = LaunchRunners(configs, runners, Len(lanes))
            /\ afterStop' = FALSE
            /\ event' = Return("Start", "", FALSE)
    /\ UNCHANGED <<configs, states, listener, closed, stopping, pending,
                   callbacks, handled, obsCount, now,
                   statesLock, runnersLock, calls>>

\* The indices of the descriptors named name.
Found(name) == {i \in 1..Len(configs) : configs[i].Name = name}

Max(S) == CHOOSE x \in S : \A y \in S : y <= x

Min(S) == CHOOSE x \in S : \A y \in S : x <= y

StartCheck(name) ==
    /\ ~stopping
    /\ IF Found(name) = {} \/ name \in DOMAIN runners
       THEN /\ event' = Return("StartCheck", name, TRUE)
            /\ UNCHANGED <<lanes, runners, afterStop>>
       ELSE /\ lanes' = LaunchLanes(<<configs[Max(Found(name))]>>)
            /\ runners' = LaunchRunners(<<configs[Max(Found(name))]>>, runners, Len(lanes))
            /\ afterStop' = FALSE
            /\ event' = Return("StartCheck", name, FALSE)
    /\ UNCHANGED <<configs, states, started, listener, closed, stopping,
                   pending, callbacks, handled, obsCount, now,
                   statesLock, runnersLock, calls>>

\* The effect of a successful StopCheck(name) on the closed channels, the
\* lane map and the State Store.
StopCheckClosed(name) == closed \cup {runners[name]}

StopCheckRunners(name) == MapDelete(runners, name)

\* StopCheck resetting the whole State Store, as Stop does.
StopCheckResetsAll(name) == EmptyMap

StopCheckStates(name) == MapDelete(states, name)

StopCheck(name) ==
    /\ ~stopping
    /\ IF name \in DOMAIN runners
       THEN /\ closed' = StopCheckClosed(name)
            /\ runners' = StopCheckRunners(name)
            /\ states' = StopCheckStates(name)
            /\ event' = Return("StopCheck", name, FALSE)
       ELSE /\ event' = Return("StopCheck", name, TRUE)
            /\ UNCHANGED <<closed, runners, states>>
    /\ UNCHANGED <<configs, started, listener, lanes, stopping, pending,
                   callbacks, handled, obsCount, afterStop, now,
                   statesLock, runnersLock, calls>>

\* append(h.configs[:idx], h.configs[idx+1:]...)
RemoveAt(s, idx) == [i \in 1..(Len(s) - 1) |-> IF i < idx THEN s[i] ELSE s[i + 1]]

\* RemoveCheck stops the lane only when the monitor is started.
RemoveStops(name) == started

RemoveCheck(name) ==
    /\ ~stopping
    /\ IF Found(name) = {}
       THEN /\ event' = Return("RemoveCheck", name, TRUE)
            /\ UNCHANGED <<configs, closed, runners, states>>
       ELSE IF RemoveStops(name)
            THEN IF name \in DOMAIN runners
                 THEN /\ closed' = StopCheckClosed(name)
                      /\ runners' = StopCheckRunners(name)
                      /\ states' = StopCheckStates(name)
                      /\ configs' = RemoveAt(configs, Min(Found(name)))
                      /\ event' = Return("RemoveCheck", name, FALSE)
                 ELSE /\ event' = Return("RemoveCheck", name, TRUE)
                      /\ UNCHANGED <<configs, closed, runners, states>>
            ELSE /\ configs' = RemoveAt(configs, Min(Found(name)))
                 /\ event' = Return("RemoveCheck", name, FALSE)
                 /\ UNCHANGED <<closed, runners, states>>
    /\ UNCHANGED <<started, listener, lanes, stopping, pending, callbacks,
                   handled, obsCount, afterStop, now,
                   statesLock, runnersLock, calls>>

\* Stop, up to its time.Sleep(time.Second): close every channel of runners.
StopSignal ==
    /\ ~stopping
    /\ stopping' = TRUE
    /\ closed' = closed \cup {runners[n] : n \in DOMAIN runners}
    /\ event' = NoEvent
    /\ UNCHANGED <<configs, states, runners, started, listener, lanes, pending,
                   callbacks, handled, obsCount, afterStop, now,
                   statesLock, runnersLock, calls>>

\* The State Store after safeResetStates.
ResetStates == EmptyMap

\* Stop, after its sleep: reset the lane map and the State Store, clear
\* started, return nil.
StopReset ==
    /\ stopping
    /\ stopping' = FALSE
    /\ runners' = EmptyMap
    /\ states' = ResetStates
    /\ started' = FALSE
    /\ afterStop' = TRUE
    /\ event' = Return("Stop", "", FALSE)
    /\ UNCHANGED <<configs, listener, lanes, closed, pending, callbacks,
                   handled, obsCount, now,
                   statesLock, runnersLock, calls>>

\* State(): a copy of the State Store, taken under statesLock.
GetStates ==
    /\ event' = [type |-> "return", op |-> "State", arg |-> "", err |-> FALSE,
                 states |-> states]
    /\ UNCHANGED <<configs, states, runners, started, listener, lanes, closed,
                   stopping, pending, callbacks, handled, obsCount, afterStop, now,
                   statesLock, runnersLock, calls>>

\* -------------------------------------------------- the Transition Detector
\* handleStatusListener's changes to *stateEntry, given the previous State
\* read from h.states and the time.Now() it reads.
FirstFailureTime(prevState, t) ==
    IF ~isFailure(prevState) THEN t ELSE prevState.TimeOfFirstFailure

\* Detect with the count carried over and not incremented.
DetectNoIncrement(prevState, stateEntry, t) ==
    IF isFailure(stateEntry)
    THEN [stateEntry EXCEPT
            !.TimeOfFirstFailure = FirstFailureTime(prevState, t),
            !.ContiguousFailures = prevState.ContiguousFailures]
    ELSE stateEntry

\* Detect with the streak fields of the previous State left in an ok State.
DetectKeepsStreak(prevState, stateEntry, t) ==
    IF isFailure(stateEntry)
    THEN [stateEntry EXCEPT
            !.TimeOfFirstFailure = FirstFailureTime(prevState, t),
            !.ContiguousFailures = prevState.ContiguousFailures + 1]
    ELSE [stateEntry EXCEPT
            !.TimeOfFirstFailure = prevState.TimeOfFirstFailure,
            !.ContiguousFailures = prevState.ContiguousFailures]

Detect(prevState, stateEntry, t) ==
    IF isFailure(stateEntry)
    THEN [stateEntry EXCEPT
            !.TimeOfFirstFailure = FirstFailureTime(prevState, t),
            !.ContiguousFailures = prevState.ContiguousFailures + 1]
    ELSE stateEntry

\* *stateEntry at the moment the listener goroutine is dispatched: CheckFailed
\* is dispatched before TimeOfFirstFailure is set, StillFailing after it, and
\* both before ContiguousFailures is set.
AtDispatch(prevState, stateEntry) ==
    IF isFailure(stateEntry) /\ isFailure(prevState)
    THEN [stateEntry EXCEPT !.TimeOfFirstFailure = prevState.TimeOfFirstFailure]
    ELSE stateEntry

\* The count after the increment, in place of the one before it.
RecordedAfterIncrement(prevState) == prevState.ContiguousFailures + 1

\* The recordedFailures argument of StillFailing and CheckRecovered.
RecordedFailures(prevState) == prevState.ContiguousFailures

\* failureSeconds := time.Now().Sub(prevState.TimeOfFirstFailure).Seconds()
FailureSeconds(prevState, t) == t - prevState.TimeOfFirstFailure

\* The listener call handleStatusListener dispatches with "go", if any.
NoteKind(prevState, stateEntry) ==
    IF isFailure(stateEntry)
    THEN IF ~isFailure(prevState) THEN "CheckFailed" ELSE "StillFailing"
    ELSE IF isFailure(prevState) THEN "CheckRecovered" ELSE "none"

Notes(prevState, stateEntry, t, obs) ==
    IF NoteKind(prevState, stateEntry) = "none" THEN {}
    ELSE {[kind |-> NoteKind(prevState, stateEntry),
           Name |-> stateEntry.Name,
           obs |-> obs,
           early |-> AtDispatch(prevState, stateEntry),
           late |-> Detect(prevState, stateEntry, t),
           recordedFailures |->
               IF NoteKind(prevState, stateEntry) = "CheckFailed" THEN 0
               ELSE RecordedFailures(prevState),
           failureSeconds |->
               IF NoteKind(prevState, stateEntry) = "CheckRecovered"
               THEN FailureSeconds(prevState, t) ELSE 0]}

\* ------------------------------------------------------------------ lanes
LaneIds == 1..Len(lanes)

\* The first State of checkFunc: Status "ok", or "failed" when Status()
\* returned an error, and CheckTime: time.Now().
NewState(name, failed, t) ==
    [Name |-> name, Status |-> IF failed THEN "failed" ELSE "ok", CheckTime |-> t,
     ContiguousFailures |-> 0, TimeOfFirstFailure |-> 0]

\* The jitter sleep is over: the lane makes its ticker and calls checkFunc,
\* which calls the probe.  The stop channel is not looked at.
LaneBegin(i) ==
    /\ lanes[i].pc = "sleep"
    /\ lanes' = [lanes EXCEPT ![i].pc = "probing"]
    /\ event' = NoEvent
    /\ UNCHANGED <<configs, states, runners, started, listener, closed, stopping,
                   pending, callbacks, handled, obsCount, afterStop, now,
                   statesLock, runnersLock, calls>>

\* cfg.Checker.Status() returns, with an error or without, and checkFunc
\* builds stateEntry.
LaneProbe(i, failed) ==
    /\ lanes[i].pc = "probing"
    /\ obsCount' = [obsCount EXCEPT ![lanes[i].Name] = @ + 1]
    /\ lanes' = [lanes EXCEPT ![i].pc = "handle",
                              ![i].stateEntry = NewState(lanes[i].Name, failed, now),
                              ![i].obs = obsCount[lanes[i].Name] + 1]
    /\ event' = NoEvent
    /\ UNCHANGED <<configs, states, runners, started, listener, closed, stopping,
                   pending, callbacks, handled, afterStop, now,
                   statesLock, runnersLock, calls>>

\* handleStatusListener: read the previous State under statesLock, release
\* the lock, dispatch the listener call and finish stateEntry.
LaneHandle(i) ==
    /\ lanes[i].pc = "handle"
    /\ LET prevState == MapGet(states, lanes[i].Name, ZeroState)
           stateEntry == lanes[i].stateEntry
       IN /\ lanes' = [lanes EXCEPT ![i].pc = "update",
                                    ![i].stateEntry = Detect(prevState, stateEntry, now)]
          /\ pending' = IF listener
                        THEN pending \cup Notes(prevState, stateEntry, now, lanes[i].obs)
                        ELSE pending
    /\ event' = NoEvent
    /\ UNCHANGED <<configs, states, runners, started, listener, closed, stopping,
                   callbacks, handled, obsCount, afterStop, now,
                   statesLock, runnersLock, calls>>

\* The rest of safeUpdateState: h.states[stateEntry.Name] = *stateEntry under
\* statesLock; then checkFunc dispatches OnComplete and returns to the loop.
UpdatedStates(stateEntry) == MapPut(states, stateEntry.Name, stateEntry)

LaneUpdate(i) ==
    /\ lanes[i].pc = "update"
    /\ states' = UpdatedStates(lanes[i].stateEntry)
    /\ callbacks' = IF lanes[i].OnComplete
                    THEN callbacks \cup {[Name |-> lanes[i].Name, obs |-> lanes[i].obs,
                                          entry |-> lanes[i].stateEntry]}
                    ELSE callbacks
    /\ lanes' = [lanes EXCEPT ![i].pc = "select", ![i].stateEntry = ZeroState,
                              ![i].obs = 0]
    /\ event' = NoEvent
    /\ UNCHANGED <<configs, runners, started, listener, closed, stopping, pending,
                   handled, obsCount, afterStop, now,
                   statesLock, runnersLock, calls>>

\* select, case <-ticker.C: the ticker has fired (it may have fired while the
\* probe ran); when the stop channel is closed too, select takes either case.
LaneTick(i) ==
    /\ lanes[i].pc = "select"
    /\ lanes' = [lanes EXCEPT ![i].pc = "probing"]
    /\ event' = NoEvent
    /\ UNCHANGED <<configs, states, runners, started, listener, closed, stopping,
                   pending, callbacks, handled, obsCount, afterStop, now,
                   statesLock, runnersLock, calls>>

\* select, case <-stop: break RunLoop, the goroutine ends.
LaneExit(i) ==
    /\ lanes[i].pc = "select"
    /\ i \in closed
    /\ lanes' = [lanes EXCEPT ![i].pc = "stopped"]
    /\ event' = NoEvent
    /\ UNCHANGED <<configs, states, runners, started, listener, closed, stopping,
                   pending, callbacks, handled, obsCount, afterStop, now,
                   statesLock, runnersLock, calls>>

\* ------------------------------------------------------ lock by lock
\* The calls and the lane steps that take statesLock or runnersLock, one step
\* per Lock(), and one step from there to the Unlock() or to the next Lock().
\* A thread waits at a Lock() until the mutex is unlocked.

\* StopCheck is called: h.runnersLock.Lock() is next.
CallStopCheck(c, name) ==
    /\ calls[c] = Idle
    /\ calls' = [calls EXCEPT ![c] = Call("StopCheck", "lockRunners", name, 0)]
    /\ event' = NoEvent
    /\ UNCHANGED <<configs, states, runners, started, listener, lanes, closed,
                   stopping, pending, callbacks, handled, obsCount, afterStop, now,
                   statesLock, runnersLock>>

\* h.runnersLock.Lock() of StopCheck.
StopCheckLockRunners(c) ==
    /\ calls[c].op = "StopCheck"
    /\ calls[c].pc = "lockRunners"
    /\ runnersLock = 0
    /\ runnersLock' = Caller(c)
    /\ calls' = [calls EXCEPT ![c].pc = "runners"]
    /\ event' = NoEvent
    /\ UNCHANGED <<configs, states, runners, started, listener, lanes, closed,
                   stopping, pending, callbacks, handled, obsCount, afterStop, now,
                   statesLock>>

\* Under runnersLock: close the channel and delete it from the lane map, and
\* go on to h.statesLock.Lock() with runnersLock held; or return the error,
\* and the deferred Unlock releases runnersLock.
StopCheckClose(c) ==
    /\ calls[c].op = "StopCheck"
    /\ calls[c].pc = "runners"
    /\ IF calls[c].name \in DOMAIN runners
       THEN /\ closed' = StopCheckClosed(calls[c].name)
            /\ runners' = StopCheckRunners(calls[c].name)
            /\ calls' = [calls EXCEPT ![c].pc = "lockStates"]
            /\ event' = NoEvent
            /\ UNCHANGED runnersLock
       ELSE /\ runnersLock' = 0
            /\ calls' = [calls EXCEPT ![c] = Idle]
            /\ event' = Return("StopCheck", calls[c].name, TRUE)
            /\ UNCHANGED <<closed, runners>>
    /\ UNCHANGED <<configs, states, started, listener, lanes, stopping, pending,
                   callbacks, handled, obsCount, afterStop, now, statesLock>>

\* h.statesLock.Lock() of StopCheck, with runnersLock held.
StopCheckLockStates(c) ==
    /\ calls[c].op = "StopCheck"
    /\ calls[c].pc = "lockStates"
    /\ statesLock = 0
    /\ statesLock' = Caller(c)
    /\ calls' = [calls EXCEPT ![c].pc = "states"]
    /\ event' = NoEvent
    /\ UNCHANGED <<configs, states, runners, started, listener, lanes, closed,
                   stopping, pending, callbacks, handled, obsCount, afterStop, now,
                   runnersLock>>

\* delete(h.states, name); return nil, and the deferred Unlocks release both
\* locks.
StopCheckDelete(c) ==
    /\ calls[c].op = "StopCheck"
    /\ calls[c].pc = "states"
    /\ states' = StopCheckStates(calls[c].name)
    /\ statesLock' = 0
    /\ runnersLock' = 0
    /\ calls' = [calls EXCEPT ![c] = Idle]
    /\ event' = Return("StopCheck", calls[c].name, FALSE)
    /\ UNCHANGED <<configs, runners, started, listener, lanes, closed, stopping,
                   pending, callbacks, handled, obsCount, afterStop, now>>

\* State() is called: safeGetStates' h.statesLock.Lock() is next.
CallState(c) ==
    /\ calls[c] = Idle
    /\ calls' = [calls EXCEPT ![c] = Call("State", "lockStates", "", 0)]
    /\ event' = NoEvent
    /\ UNCHANGED <<configs, states, runners, started, listener, lanes, closed,
                   stopping, pending, callbacks, handled, obsCount, afterStop, now,
                   statesLock, runnersLock>>

\* h.statesLock.Lock() of safeGetStates.
StateLock(c) ==
    /\ calls[c].op = "State"
    /\ calls[c].pc = "lockStates"
    /\ statesLock = 0
    /\ statesLock' = Caller(c)
    /\ calls' = [calls EXCEPT ![c].pc = "states"]
    /\ event' = NoEvent
    /\ UNCHANGED <<configs, states, runners, started, listener, lanes, closed,
                   stopping, pending, callbacks, handled, obsCount, afterStop, now,
                   runnersLock>>

\* The copy of h.states, the deferred Unlock, and the return.
StateCopy(c) ==
    /\ calls[c].op = "State"
    /\ calls[c].pc = "states"
    /\ statesLock' = 0
    /\ calls' = [calls EXCEPT ![c] = Idle]
    /\ event' = [type |-> "return", op |-> "State", arg |-> "", err |-> FALSE,
                 states |-> states]
    /\ UNCHANGED <<configs, states, runners, started, listener, lanes, closed,
                   stopping, pending, callbacks, handled, obsCount, afterStop, now,
                   runnersLock>>

\* Stop is called: it closes every channel of h.runners, taking no lock, and
\* sleeps.
CallStop(c) ==
    /\ calls[c] = Idle
    /\ ~stopping
    /\ stopping' = TRUE
    /\ closed' = closed \cup {runners[n] : n \in DOMAIN runners}
    /\ calls' = [calls EXCEPT ![c] = Call("Stop", "sleep", "", 0)]
    /\ event' = NoEvent
    /\ UNCHANGED <<configs, states, runners, started, listener, lanes, pending,
                   callbacks, handled, obsCount, afterStop, now, statesLock,
                   runnersLock>>

\* The sleep is over: h.runners = make(...), taking no lock; safeResetStates'
\* h.statesLock.Lock() is next.
StopWake(c) ==
    /\ calls[c].op = "Stop"
    /\ calls[c].pc = "sleep"
    /\ runners' = EmptyMap
    /\ calls' = [calls EXCEPT ![c].pc = "lockStates"]
    /\ event' = NoEvent
    /\ UNCHANGED <<configs, states, started, listener, lanes, closed, stopping,
                   pending, callbacks, handled, obsCount, afterStop, now,
                   statesLock, runnersLock>>

\* h.statesLock.Lock() of safeResetStates.
StopLock(c) ==
    /\ calls[c].op = "Stop"
    /\ calls[c].pc = "lockStates"
    /\ statesLock = 0
    /\ statesLock' = Caller(c)
    /\ calls' = [calls EXCEPT ![c].pc = "states"]
    /\ event' = NoEvent
    /\ UNCHANGED <<configs, states, runners, started, listener, lanes, closed,
                   stopping, pending, callbacks, handled, obsCount, afterStop, now,
                   runnersLock>>

\* h.states = make(...), the deferred Unlock, h.started = false, return nil.
StopResetStates(c) ==
    /\ calls[c].op = "Stop"
    /\ calls[c].pc = "states"
    /\ states' = ResetStates
    /\ statesLock' = 0
    /\ started' = FALSE
    /\ stopping' = FALSE
    /\ afterStop' = TRUE
    /\ calls' = [calls EXCEPT ![c] = Idle]
    /\ event' = Return("Stop", "", FALSE)
    /\ UNCHANGED <<configs, runners, listener, lanes, closed, pending, callbacks,
                   handled, obsCount, now, runnersLock>>

\* StartCheck is called: it returns an error, or startRunnerForConfig makes
\* the channel and launches the lane, and h.runnersLock.Lock() is next.
CallStartCheck(c, name) ==
    /\ calls[c] = Idle
    /\ ~stopping
    /\ IF Found(name) = {} \/ name \in DOMAIN runners
       THEN /\ event' = Return("StartCheck", name, TRUE)
            /\ UNCHANGED <<lanes, afterStop, calls>>
       ELSE /\ lanes' = LaunchLanes(<<configs[Max(Found(name))]>>)
            /\ afterStop' = FALSE
            /\ calls' = [calls EXCEPT
                            ![c] = Call("StartCheck", "lockRunners", name, Len(lanes) + 1)]
            /\ event' = NoEvent
    /\ UNCHANGED <<configs, states, runners, started, listener, closed, stopping,
                   pending, callbacks, handled, obsCount, now, statesLock,
                   runnersLock>>

\* h.runnersLock.Lock() of startRunnerForConfig.
StartCheckLock(c) ==
    /\ calls[c].op = "StartCheck"
    /\ calls[c].pc = "lockRunners"
    /\ runnersLock = 0
    /\ runnersLock' = Caller(c)
    /\ calls' = [calls EXCEPT ![c].pc = "runners"]
    /\ event' = NoEvent
    /\ UNCHANGED <<configs, states, runners, started, listener, lanes, closed,
                   stopping, pending, callbacks, handled, obsCount, afterStop, now,
                   statesLock>>

\* h.runners[c.Name] = stop, the deferred Unlock, and StartCheck returns nil.
StartCheckRegister(c) ==
    /\ calls[c].op = "StartCheck"
    /\ calls[c].pc = "runners"
    /\ runners' = MapPut(runners, calls[c].name, calls[c].stop)
    /\ runnersLock' = 0
    /\ calls' = [calls EXCEPT ![c] = Idle]
    /\ event' = Return("StartCheck", calls[c].name, FALSE)
    /\ UNCHANGED <<configs, states, started, listener, lanes, closed, stopping,
                   pending, callbacks, handled, obsCount, afterStop, now,
                   statesLock>>

\* h.statesLock.Lock() of a lane, in handleStatusListener or in
\* safeUpdateState.
LaneLock(i) ==
    /\ lanes[i].pc \in {"handle", "update"}
    /\ statesLock = 0
    /\ statesLock' = i
    /\ event' = NoEvent
    /\ UNCHANGED <<configs, states, runners, started, listener, lanes, closed,
                   stopping, pending, callbacks, handled, obsCount, afterStop, now,
                   runnersLock, calls>>

\* handleStatusListener with the lock held: read the previous State, Unlock,
\* dispatch the listener call and finish stateEntry.
LaneReadPrev(i) ==
    /\ lanes[i].pc = "handle"
    /\ statesLock = i
    /\ statesLock' = 0
    /\ LET prevState == MapGet(states, lanes[i].Name, ZeroState)
           stateEntry == lanes[i].stateEntry
       IN /\ lanes' = [lanes EXCEPT ![i].pc = "update",
                                    ![i].stateEntry = Detect(prevState, stateEntry, now)]
          /\ pending' = IF listener
                        THEN pending \cup Notes(prevState, stateEntry, now, lanes[i].obs)
                        ELSE pending
    /\ event' = NoEvent
    /\ UNCHANGED <<configs, states, runners, started, listener, closed, stopping,
                   callbacks, handled, obsCount, afterStop, now, runnersLock, calls>>

\* The lane keeps statesLock when safeUpdateState returns.
KeptAfterUpdate(i) == i

\* The holder of statesLock when safeUpdateState has returned: the deferred
\* Unlock has run.
HolderAfterUpdate(i) == 0

\* safeUpdateState with the lock held: write the State, return (the deferred
\* Unlock), then checkFunc dispatches OnComplete and returns to the loop.
LaneWrite(i) ==
    /\ lanes[i].pc = "update"
    /\ statesLock = i
    /\ statesLock' = HolderAfterUpdate(i)
    /\ states' = UpdatedStates(lanes[i].stateEntry)
    /\ callbacks' = IF lanes[i].OnComplete
                    THEN callbacks \cup {[Name |-> lanes[i].Name, obs |-> lanes[i].obs,
                                          entry |-> lanes[i].stateEntry]}
                    ELSE callbacks
    /\ lanes' = [lanes EXCEPT ![i].pc = "select", ![i].stateEntry = ZeroState,
                              ![i].obs = 0]
    /\ event' = NoEvent
    /\ UNCHANGED <<configs, runners, started, listener, closed, stopping, pending,
                   handled, obsCount, afterStop, now, runnersLock, calls>>

\* ------------------------------------------- listener and OnComplete calls
\* What a listener call may read through its *State: the lane writes
\* TimeOfFirstFailure and ContiguousFailures after the dispatch, without
\* synchronisation, so each of the two fields is read as it was at the
\* dispatch or as the lane left it.
Seen(note) ==
    {[note.late EXCEPT !.TimeOfFirstFailure = f, !.ContiguousFailures = c] :
        f \in {note.early.TimeOfFirstFailure, note.late.TimeOfFirstFailure},
        c \in {note.early.ContiguousFailures, note.late.ContiguousFailures}}

ListenerRun(note) ==
    /\ note \in pending
    /\ pending' = pending \ {note}
    /\ \E entry \in Seen(note) :
          event' = [type |-> "listener", kind |-> note.kind, name |-> note.Name,
                    obs |-> note.obs, entry |-> entry,
                    recordedFailures |-> note.recordedFailures,
                    failureSeconds |-> note.failureSeconds]
    /\ UNCHANGED <<configs, states, runners, started, listener, lanes, closed,
                   stopping, callbacks, handled, obsCount, afterStop, now,
                   statesLock, runnersLock, calls>>

\* One OnComplete goroutine runs: the k-th call for its check.
CallbackRun(cb) ==
    /\ cb \in callbacks
    /\ callbacks' = callbacks \ {cb}
    /\ handled' = [handled EXCEPT ![cb.Name] = @ + 1]
    /\ event' = [type |-> "callback", name |-> cb.Name, k |-> handled[cb.Name] + 1,
                 obs |-> cb.obs, entry |-> cb.entry]
    /\ UNCHANGED <<configs, states, runners, started, listener, lanes, closed,
                   stopping, pending, obsCount, afterStop, now,
                   statesLock, runnersLock, calls>>

\* The wall clock advances.
Tick ==
    /\ now' = now + 1
    /\ event' = NoEvent
    /\ UNCHANGED <<configs, states, runners, started, listener, lanes, closed,
                   stopping, pending, callbacks, handled, obsCount, afterStop,
                   statesLock, runnersLock, calls>>

\* ---------------------------------------------------------- specification
\* The argument lists of one AddCheck call: at most `most` descriptors of ds.
ArgLists(ds, most) == UNION {[1..n -> ds] : n \in 1..most}

\* The bounds of a behaviour, as guards on the steps that grow it.
RoomForConfigs(cfg) == Clashes(cfg) # {} \/ Len(configs) + Len(cfg) <= MaxConfigs

RoomForLanes(n) == Len(lanes) + n <= MaxLanes

RECURSIVE Sum(_, _)
Sum(f, S) == IF S = {} THEN 0 ELSE LET x == CHOOSE y \in S : TRUE IN f[x] + Sum(f, S \ {x})

RoomForProbe(most) == Sum(obsCount, Names) < most

\* The control thread's calls.
Register(ds, most) == \E cfg \in ArgLists(ds, most) : RoomForConfigs(cfg) /\ AddCheck(cfg)

Unregister(ns) == \E name \in ns : RemoveCheck(name)

StartAll == (started \/ RoomForLanes(Len(configs))) /\ Start

StartOne(ns) == \E name \in ns : RoomForLanes(1) /\ StartCheck(name)

StopOne(ns) == \E name \in ns : StopCheck(name)

StopAll == StopSignal \/ StopReset

\* The steps of the lanes, with at most `most` probes returning.
Lanes(most) ==
    \/ \E i \in LaneIds : LaneBegin(i)
    \/ \E i \in LaneIds, failed \in BOOLEAN : RoomForProbe(most) /\ LaneProbe(i, failed)
    \/ \E i \in LaneIds : LaneHandle(i)
    \/ \E i \in LaneIds : LaneUpdate(i)
    \/ \E i \in LaneIds : LaneTick(i)
    \/ \E i \in LaneIds : LaneExit(i)

\* The descriptors of check "a", with OnComplete or without.
OnlyA(onComplete) == {c \in Configs : c.Name = "a" /\ c.OnComplete = onComplete}

\* The life cycle of the lanes and the State Store: descriptors of both
\* names without OnComplete, registered one per call, no listener, a clock
\* that stands still.
Next ==
    \/ Register({c \in Configs : ~c.OnComplete}, 1)
    \/ Unregister(Names)
    \/ StartAll
    \/ StartOne(Names)
    \/ StopOne(Names)
    \/ StopAll
    \/ GetStates
    \/ Lanes(MaxProbes)

Spec == Init /\ [][Next]_vars

\* The registry of a monitor that is not started, under AddCheck and
\* RemoveCheck alone, with every descriptor and several descriptors per
\* AddCheck call.
NextRegistry ==
    \/ Register(Configs, MaxArgs)
    \/ Unregister(Names)

SpecRegistry == Init /\ [][NextRegistry]_vars

\* The Transition Detector at work: the listener is attached before anything
\* else is called and the descriptor is the one of check "a" without
\* OnComplete.  The listener calls are dispatched and stay pending.
NextDetector ==
    \/ lanes = <<>> /\ configs = <<>> /\ AttachListener
    \/ listener /\ Register(OnlyA(FALSE), 1)
    \/ listener /\ Unregister({"a"})
    \/ listener /\ StartAll
    \/ listener /\ StartOne({"a"})
    \/ listener /\ StopOne({"a"})
    \/ listener /\ StopAll
    \/ Lanes(MaxStreak)

SpecDetector == Init /\ [][NextDetector]_vars

\* The same with a clock that advances, and a control thread that registers,
\* launches and stops single checks.
NextClock ==
    \/ lanes = <<>> /\ configs = <<>> /\ AttachListener
    \/ listener /\ Register(OnlyA(FALSE), 1)
    \/ listener /\ StartAll
    \/ listener /\ StartOne({"a"})
    \/ listener /\ StopOne({"a"})
    \/ Lanes(MaxStreak)
    \/ now < MaxTime /\ Tick

SpecClock == Init /\ [][NextClock]_vars

\* The completion callbacks: check "a" with OnComplete is registered, started
\* with Start and stopped with StopCheck, so that it has one lane, and the
\* OnComplete calls run.
NextCallback ==
    \/ Register(OnlyA(TRUE), 1)
    \/ StartAll
    \/ StopOne({"a"})
    \/ Lanes(MaxStreak)
    \/ \E cb \in callbacks : CallbackRun(cb)

SpecCallback == Init /\ [][NextCallback]_vars

\* The listener calls at work: check "a" alone, started with Start and
\* stopped with StopCheck, each listener goroutine running at some time after
\* its dispatch.
NextListener ==
    \/ lanes = <<>> /\ configs = <<>> /\ AttachListener
    \/ listener /\ Register(OnlyA(FALSE), 1)
    \/ listener /\ StartAll
    \/ listener /\ StopOne({"a"})
    \/ Lanes(MaxStreak)
    \/ \E note \in pending : ListenerRun(note)

SpecListener == Init /\ [][NextListener]_vars

\* The steps of the lanes where every probe that was started returns and the
\* tickers fire at most `most` times.
TickingLanes(most) ==
    \/ \E i \in LaneIds : LaneBegin(i)
    \/ \E i \in LaneIds, failed \in BOOLEAN : LaneProbe(i, failed)
    \/ \E i \in LaneIds : LaneHandle(i)
    \/ \E i \in LaneIds : LaneUpdate(i)
    \/ \E i \in LaneIds : RoomForProbe(most) /\ LaneTick(i)
    \/ \E i \in LaneIds : LaneExit(i)

\* The steps of lane i that need nothing but the scheduler to happen: the
\* end of the jitter sleep, the return of the probe, the two critical
\* sections and the receive from the closed stop channel.
LaneStep(i) ==
    /\ i \in LaneIds
    /\ \/ LaneBegin(i)
       \/ \E failed \in BOOLEAN : LaneProbe(i, failed)
       \/ LaneHandle(i)
       \/ LaneUpdate(i)
       \/ LaneExit(i)

\* The goroutines are scheduled, every probe returns, Stop's sleep ends, and
\* a select whose stop channel is closed takes the stop case at some time
\* (Go picks among the ready cases at random).
Fairness ==
    /\ \A i \in 1..MaxLanes : WF_vars(LaneStep(i))
    /\ \A i \in 1..MaxLanes : SF_vars(i \in LaneIds /\ LaneExit(i))
    /\ WF_vars(StopReset)

\* The lanes of check "a" to their end: the check is registered, started with
\* StartCheck and with Start, stopped with StopCheck and with Stop.
NextLive ==
    \/ Register(OnlyA(FALSE), 1)
    \/ StartOne({"a"})
    \/ StartAll
    \/ StopOne({"a"})
    \/ StopAll
    \/ TickingLanes(MaxProbes)

SpecLive == Init /\ [][NextLive]_vars /\ Fairness

\* No caller is in a call of ops.
NoCallOf(ops) == \A d \in Callers : calls[d].op \notin ops

\* The steps of the callers, lock by lock.  StopCheck and State calls run at
\* the same time as any other; Stop and StartCheck read and write h.runners
\* outside runnersLock, so they are called while no other call that uses
\* h.runners is in progress.
Callings(ns) ==
    \/ \E c \in Callers, name \in ns :
          NoCallOf({"Stop", "StartCheck"}) /\ CallStopCheck(c, name)
    \/ \E c \in Callers : StopCheckLockRunners(c)
    \/ \E c \in Callers : StopCheckClose(c)
    \/ \E c \in Callers : StopCheckLockStates(c)
    \/ \E c \in Callers : StopCheckDelete(c)
    \/ \E c \in Callers : CallState(c)
    \/ \E c \in Callers : StateLock(c)
    \/ \E c \in Callers : StateCopy(c)
    \/ \E c \in Callers : NoCallOf({"Stop", "StartCheck", "StopCheck"}) /\ CallStop(c)
    \/ \E c \in Callers : StopWake(c)
    \/ \E c \in Callers : StopLock(c)
    \/ \E c \in Callers : StopResetStates(c)
    \/ \E c \in Callers, name \in ns :
          /\ NoCallOf({"Stop", "StartCheck", "StopCheck"})
          /\ RoomForLanes(1)
          /\ CallStartCheck(c, name)
    \/ \E c \in Callers : StartCheckLock(c)
    \/ \E c \in Callers : StartCheckRegister(c)

\* The steps of the lanes, lock by lock, with at most `most` probes returning.
LockingLanes(most) ==
    \/ \E i \in LaneIds : LaneBegin(i)
    \/ \E i \in LaneIds, failed \in BOOLEAN : RoomForProbe(most) /\ LaneProbe(i, failed)
    \/ \E i \in LaneIds : LaneLock(i)
    \/ \E i \in LaneIds : LaneReadPrev(i)
    \/ \E i \in LaneIds : LaneWrite(i)
    \/ \E i \in LaneIds : LaneTick(i)
    \/ \E i \in LaneIds : LaneExit(i)

\* The locks at work: check "a" is registered and the monitor is started
\* while no call is in progress; from there the callers and the lanes run
\* lock by lock.
NextLocks ==
    \/ NoCallOf({"Stop", "StartCheck", "StopCheck"}) /\ Register(OnlyA(FALSE), 1)
    \/ NoCallOf({"Stop", "StartCheck", "StopCheck"}) /\ StartAll
    \/ Callings({"a"})
    \/ LockingLanes(MaxProbes)

SpecLocks == Init /\ [][NextLocks]_vars

\* ------------------------------------------------------------------ claims
\* The lanes of check n that have not exited.
Running(n) == {i \in LaneIds : lanes[i].Name = n /\ lanes[i].pc # "stopped"}

IsReturn(e, op) == e.type = "return" /\ e.op = op

\* C1: every State in the State Store has ContiguousFailures = 0 exactly
\* when its Status is "ok", and ContiguousFailures > 0 exactly when its
\* Status is "failed".
C1_CountIffStatus ==
    \A n \in DOMAIN states :
        /\ states[n].Status \in {"ok", "failed"}
        /\ states[n].ContiguousFailures = 0 <=> states[n].Status = "ok"
        /\ states[n].ContiguousFailures > 0 <=> states[n].Status = "failed"

\* A streak of two failures is stored for a check while another lane of the
\* monitor has been stopped.
C1_Witness ==
    /\ \E n \in DOMAIN states : states[n].ContiguousFailures = 2
    /\ closed # {}

\* C5: State() called after Stop has returned, with no Start or StartCheck in
\* between, returns an empty map.
C5_EmptyAfterStop ==
    (IsReturn(event, "State") /\ afterStop) => event.states = EmptyMap

\* C6: a StopCheck(n) that succeeds leaves every other check's State and
\* lane registration as they were, closes no other lane's channel and
\* changes no lane, registry or started flag; a StopCheck(n) called when no
\* lane of n is running fails, and a StopCheck that fails changes nothing.
C6_StopCheckFrame ==
    [][\A n \in Names :
        (IsReturn(event', "StopCheck") /\ event'.arg = n) =>
            /\ Running(n) = {} => event'.err
            /\ event'.err =>
                  UNCHANGED <<runners, states, configs, started, lanes, closed>>
            /\ ~event'.err =>
                  /\ n \in DOMAIN runners
                  /\ DOMAIN runners' = DOMAIN runners \ {n}
                  /\ DOMAIN states' = DOMAIN states \ {n}
                  /\ \A m \in DOMAIN runners' : runners'[m] = runners[m]
                  /\ \A m \in DOMAIN states' : states'[m] = states[m]
                  /\ closed' = closed \cup {runners[n]}
                  /\ UNCHANGED <<configs, started, lanes>>]_vars

\* StopCheck of one check has succeeded while the other check is registered
\* in the lane map, has a State and a running lane.
C6_Witness ==
    /\ IsReturn(event, "StopCheck")
    /\ ~event.err
    /\ \E m \in Names \ {event.arg} :
          /\ m \in DOMAIN runners
          /\ m \in DOMAIN states
          /\ Running(m) # {}

\* C7: AddCheck with a descriptor whose name is the name of a registered
\* descriptor returns an error and leaves the registry as it was.
C7_DuplicateRejected ==
    [][(/\ IsReturn(event', "AddCheck")
        /\ \E j \in 1..Len(event'.arg), i \in 1..Len(configs) :
              event'.arg[j].Name = configs[i].Name)
       => (event'.err /\ configs' = configs)]_vars

\* AddCheck has failed for a call of two descriptors of which only the second
\* names a registered descriptor.
C7_Witness ==
    /\ IsReturn(event, "AddCheck")
    /\ event.err
    /\ Len(event.arg) = 2
    /\ \A i \in 1..Len(configs) : configs[i].Name # event.arg[1].Name
    /\ \E i \in 1..Len(configs) : configs[i].Name = event.arg[2].Name

\* C8: Start on a started monitor returns an error and leaves the started
\* flag, the lane map, the lanes, their channels and the State Store as they
\* were.
C8_StartTwice ==
    [][(IsReturn(event', "Start") /\ started)
       => (event'.err /\ UNCHANGED <<started, runners, lanes, closed, states, configs>>)]_vars

\* Start has failed while a lane is running and registered and has a State.
C8_Witness ==
    /\ IsReturn(event, "Start")
    /\ event.err
    /\ \E n \in DOMAIN runners : n \in DOMAIN states /\ Running(n) # {}

\* C9: after RemoveCheck(n) has returned without an error, one descriptor
\* named n has left the registry, n is not in the lane map, every lane of n
\* that was running has its channel closed, and n has no State.
C9_RemoveStopsLane ==
    [][\A n \in Names :
        (IsReturn(event', "RemoveCheck") /\ event'.arg = n /\ ~event'.err) =>
            /\ Len(configs') = Len(configs) - 1
            /\ n \notin DOMAIN runners'
            /\ Running(n) \subseteq closed'
            /\ (Running(n) # {} => n \notin DOMAIN states')]_vars


\* Lane i takes its step through handleStatusListener.
Handles(i) == lanes[i].pc = "handle" /\ lanes'[i].pc = "update"

\* Lane i takes its step that writes the State Store.
Updates(i) == lanes[i].pc = "update" /\ lanes'[i].pc = "select"

\* The State of lane i's check that the State Store holds.
Stored(i) == MapGet(states, lanes[i].Name, ZeroState)

\* C2: with a listener attached, handling a failed observation dispatches
\* exactly one listener call: CheckFailed when the stored State is absent or
\* not failing, and else StillFailing with the stored State's
\* ContiguousFailures, which is at least 1 and one less than the count of the
\* new State.
C2_FailureNotes ==
    [][\A i \in LaneIds :
        (Handles(i) /\ listener /\ isFailure(lanes[i].stateEntry)) =>
            /\ pending \subseteq pending'
            /\ Cardinality(pending' \ pending) = 1
            /\ \A note \in pending' \ pending :
                  /\ note.Name = lanes[i].Name
                  /\ IF ~isFailure(Stored(i))
                     THEN /\ note.kind = "CheckFailed"
                          /\ lanes'[i].stateEntry.ContiguousFailures = 1
                     ELSE /\ note.kind = "StillFailing"
                          /\ note.recordedFailures = Stored(i).ContiguousFailures
                          /\ note.recordedFailures >= 1
                          /\ lanes'[i].stateEntry.ContiguousFailures
                                = note.recordedFailures + 1]_vars

\* A streak of three failures has dispatched one CheckFailed and two
\* StillFailing, with the counts 1 and 2.
C2_Witness ==
    /\ Cardinality({note \in pending : note.kind = "CheckFailed"}) = 1
    /\ \A c \in {1, 2} :
          \E note \in pending : note.kind = "StillFailing" /\ note.recordedFailures = c
    /\ Cardinality(pending) = 3

\* C3: with a listener attached, handling an ok observation dispatches
\* exactly one CheckRecovered, with the stored State's ContiguousFailures,
\* when the stored State is failing, and nothing when it is absent or not
\* failing; the State the lane then stores has ContiguousFailures = 0 and the
\* zero TimeOfFirstFailure.
C3_RecoveryNotes ==
    [][\A i \in LaneIds :
        /\ (Handles(i) /\ listener /\ ~isFailure(lanes[i].stateEntry)) =>
              IF isFailure(Stored(i))
              THEN /\ pending \subseteq pending'
                   /\ Cardinality(pending' \ pending) = 1
                   /\ \A note \in pending' \ pending :
                         /\ note.Name = lanes[i].Name
                         /\ note.kind = "CheckRecovered"
                         /\ note.recordedFailures = Stored(i).ContiguousFailures
              ELSE pending' = pending
        /\ (Updates(i) /\ ~isFailure(lanes[i].stateEntry)) =>
              /\ states'[lanes[i].Name].Status = "ok"
              /\ states'[lanes[i].Name].ContiguousFailures = 0
              /\ states'[lanes[i].Name].TimeOfFirstFailure = 0]_vars

\* A streak of two failures has ended: CheckRecovered was dispatched with
\* the count 2 and the State stored is ok.
C3_Witness ==
    /\ \E note \in pending : note.kind = "CheckRecovered" /\ note.recordedFailures = 2
    /\ \E n \in DOMAIN states : states[n].Status = "ok"

\* C4: the first failure of a streak sets TimeOfFirstFailure to its own
\* CheckTime, the later failures carry it forward, and CheckRecovered reports
\* the recovering observation's CheckTime minus that time.
C4_DurationFromCheckTimes ==
    [][\A i \in LaneIds :
        Handles(i) =>
            /\ (isFailure(lanes[i].stateEntry) /\ ~isFailure(Stored(i))) =>
                  lanes'[i].stateEntry.TimeOfFirstFailure = lanes[i].stateEntry.CheckTime
            /\ (isFailure(lanes[i].stateEntry) /\ isFailure(Stored(i))) =>
                  lanes'[i].stateEntry.TimeOfFirstFailure = Stored(i).TimeOfFirstFailure
            /\ \A note \in pending' \ pending :
                  note.kind = "CheckRecovered" =>
                      note.failureSeconds
                         = lanes[i].stateEntry.CheckTime - Stored(i).TimeOfFirstFailure]_vars

\* C10: the k-th OnComplete call of a check to run carries the State of the
\* k-th observation of that check.
C10_CallbacksInOrder ==
    event.type = "callback" => event.obs = event.k

\* Lane i starts an invocation of the probe: the first one, after the jitter
\* sleep, or one for a tick.
StartsProbe(i) == lanes[i].pc \in {"sleep", "select"} /\ lanes'[i].pc = "probing"

\* C11: a lane whose stop channel has been closed starts no invocation of
\* the probe, neither the first one after the jitter sleep nor one for a tick.
C11_NoProbeAfterCancel ==
    [][\A i \in LaneIds : i \in closed => ~StartsProbe(i)]_vars

\* The lanes launched for check n.
LanesOf(n) == {i \in LaneIds : lanes[i].Name = n}

\* Check n has been stopped and not started again: it is not in the lane map
\* and the stop channel of the lane launched last for it is closed.
Halted(n) ==
    /\ n \notin DOMAIN runners
    /\ LanesOf(n) # {}
    /\ Max(LanesOf(n)) \in closed

\* C12: the State Store has no entry for a check that has been stopped with
\* StopCheck and not started again.
C12_NoStateOfStoppedCheck ==
    \A n \in Names : Halted(n) => n \notin DOMAIN states

\* Lane i has read the previous State and has not yet written the new one.
BetweenReadAndWrite(i) == lanes[i].pc = "update"

\* C13: while a lane is between its read of the previous State and its write
\* of the new State, no other step writes or deletes the State of its check
\* and no State() call reads the State Store.
C13_AtomicReadModifyWrite ==
    [][\A i \in LaneIds :
        (BetweenReadAndWrite(i) /\ ~Updates(i)) =>
            /\ (lanes[i].Name \in DOMAIN states') = (lanes[i].Name \in DOMAIN states)
            /\ MapGet(states', lanes[i].Name, ZeroState) = Stored(i)
            /\ ~IsReturn(event', "State")]_vars

\* The lanes with an invocation of the probe of check n in progress.
Probing(n) == {i \in LanesOf(n) : lanes[i].pc = "probing"}

\* C14: at most one invocation of the probe of a check is in progress.
C14_ProbesNeverOverlap ==
    \A n \in Names : Cardinality(Probing(n)) <= 1

\* C17: every lane that has not exited and whose stop channel is not closed
\* is in the lane map under its check's name, with its own stop channel.
C17_RunningLanesRegistered ==
    \A i \in LaneIds :
        (lanes[i].pc # "stopped" /\ i \notin closed) =>
            /\ lanes[i].Name \in DOMAIN runners
            /\ runners[lanes[i].Name] = i

\* C18: RemoveCheck(n) called while a descriptor named n is registered
\* returns no error and removes one descriptor from the registry.
C18_RemoveFailsOnlyIfAbsent ==
    [][(IsReturn(event', "RemoveCheck") /\ Found(event'.arg) # {})
       => (~event'.err /\ Len(configs') = Len(configs) - 1)]_vars

\* C19: no two descriptors of the registry have the same name.
C19_NamesUnique ==
    \A i, j \in 1..Len(configs) : i # j => configs[i].Name # configs[j].Name

\* C15: the State a CheckFailed call reads has ContiguousFailures = 1 and
\* TimeOfFirstFailure set, and the State a StillFailing call reads has
\* ContiguousFailures one above the count the call is given.
C15_ListenerSeesFinalState ==
    event.type = "listener" =>
        /\ event.kind = "CheckFailed" =>
              /\ event.entry.ContiguousFailures = 1
              /\ event.entry.TimeOfFirstFailure # 0
        /\ event.kind = "StillFailing" =>
              event.entry.ContiguousFailures = event.recordedFailures + 1

\* Stop or StopCheck(n) has just issued its cancellation signal.
CancelIssued(n) ==
    \/ stopping
    \/ IsReturn(event, "StopCheck") /\ ~event.err /\ event.arg = n

\* C16: every lane that is running when Stop, or StopCheck of its check,
\* issues the cancellation signal exits at some time, and a lane that has
\* exited stays so.
C16_LanesExitAfterCancel ==
    /\ \A i \in 1..MaxLanes :
          (i \in LaneIds /\ lanes[i].pc # "stopped" /\ CancelIssued(lanes[i].Name))
              ~> (i \in LaneIds /\ lanes[i].pc = "stopped")
    /\ [][\A i \in LaneIds : lanes[i].pc = "stopped" => lanes'[i].pc = "stopped"]_vars

\* The threads that are at a Lock() of statesLock, and of runnersLock.
AtLockStates ==
    {i \in LaneIds : lanes[i].pc \in {"handle", "update"} /\ statesLock # i}
        \cup {Caller(c) : c \in {d \in Callers : calls[d].pc = "lockStates"}}

AtLockRunners == {Caller(c) : c \in {d \in Callers : calls[d].pc = "lockRunners"}}

\* The next step of thread t, where t is inside a call or holds a lock.
ThreadStep(t) ==
    IF t > 0
    THEN t \in LaneIds /\ (LaneLock(t) \/ LaneReadPrev(t) \/ LaneWrite(t))
    ELSE \E c \in Callers :
            /\ t = Caller(c)
            /\ \/ StopCheckLockRunners(c) \/ StopCheckClose(c)
               \/ StopCheckLockStates(c) \/ StopCheckDelete(c)
               \/ StateLock(c) \/ StateCopy(c)
               \/ StopWake(c) \/ StopLock(c) \/ StopResetStates(c)
               \/ StartCheckLock(c) \/ StartCheckRegister(c)

\* Thread t can take a step, or waits for statesLock whose holder can.
CanGoOn(t) ==
    \/ ENABLED ThreadStep(t)
    \/ t \in AtLockStates /\ statesLock # 0 /\ ENABLED ThreadStep(statesLock)

\* Thread t can go on, or waits for runnersLock whose holder can.
NotStuck(t) ==
    \/ CanGoOn(t)
    \/ t \in AtLockRunners /\ runnersLock # 0 /\ CanGoOn(runnersLock)

\* C20: no thread that holds statesLock is at a Lock() of either lock, so the
\* two locks are never waited for in opposite orders; no lane holds a lock
\* while its probe runs, and none is held when no thread is in a critical
\* section; and every thread inside a call or at a Lock() can take a step,
\* or waits for a lock whose holder can take one or waits in turn for a lock
\* whose holder can: there is no deadlock.
C20_NoDeadlock ==
    /\ statesLock # 0 => statesLock \notin (AtLockStates \cup AtLockRunners)
    /\ runnersLock # 0 => runnersLock \notin AtLockRunners
    /\ \A i \in LaneIds :
          lanes[i].pc \in {"sleep", "probing", "select", "stopped"} =>
              (statesLock # i /\ runnersLock # i)
    /\ \A t \in AtLockStates \cup AtLockRunners : NotStuck(t)
    /\ \A c \in Callers : calls[c] # Idle => NotStuck(Caller(c))

\* A StopCheck call holds runnersLock and waits for statesLock, which a lane
\* holds, while the other caller waits for runnersLock.
C20_Witness ==
    /\ runnersLock < 0
    /\ runnersLock \in AtLockStates
    /\ statesLock > 0
    /\ AtLockRunners # {}

====
